---- MODULE Spec2Model ----
(***************************************************************************)
(* The MBR partition-table commands of src/bin/nyns.cpp                    *)
(* ("partition <path> [clean|add|create]") as a state machine over a small *)
(* file system.                                                            *)
(*                                                                         *)
(* A path is a sequence of characters.  A file-system entry is a record    *)
(* [kind, len, nz]: kind is "none" (no entry), "file", "dir" or "blk"      *)
(* (block special); len is the byte length as a 64-bit number; nz maps the *)
(* offsets of the non-zero bytes to their values (every other byte below   *)
(* len is zero, as in a sparse file).                                      *)
(*                                                                         *)
(* The "button ..." commands of the same interpreter act on the button     *)
(* list g_buttons and the selected index g_selected_button; a script line  *)
(* is a sequence of characters, split into tokens as interpret_command     *)
(* splits it.                                                              *)
(*                                                                         *)
(* TLC's integers are 32 bits wide, so the 64-bit stream offsets and the   *)
(* 32-bit LBA fields are kept as little-endian tuples of 16-bit limbs.     *)
(***************************************************************************)
EXTENDS Integers, Sequences, FiniteSets, TLC

VARIABLES fs, target, last, hist, g_buttons, g_selected_button, tui

vars == <<fs, target, last, hist, g_buttons, g_selected_button, tui>>

---------------------------------------------------------------------------
(* Bounds of the explored inputs.                                          *)

\* initial partition tables have at most this many non-zero slots
MaxNonEmpty == 1
\* initial files have the lengths 512*k and 512*k + 1 for k up to this
MaxSectors == 3

---------------------------------------------------------------------------
(* Program constants.                                                      *)

SECTOR_SIZE == 512
MBR_PART_TABLE_OFFSET == 446
MBR_MAX_PARTITIONS == 4
ENTRY_SIZE == 16
IMAGE_SECTORS == 1024

---------------------------------------------------------------------------
(* 64-bit and 32-bit unsigned numbers as little-endian 16-bit limbs.       *)

Limb == 256 * 256

U64Zero == <<0, 0, 0, 0>>

\* an ordinary (small) integer as a 64-bit number
U64Of(n) == <<n % Limb, n \div Limb, 0, 0>>

U64Less(a, b) ==
    \E i \in 1..4 : a[i] < b[i] /\ \A j \in (i + 1)..4 : a[j] = b[j]

U64Max(a, b) == IF U64Less(a, b) THEN b ELSE a

\* file_size / 512, truncating (file_size is never negative here)
U64Div512(a) ==
    LET r4 == a[4] % 512
        t3 == r4 * Limb + a[3]
        r3 == t3 % 512
        t2 == r3 * Limb + a[2]
        r2 == t2 % 512
        t1 == r2 * Limb + a[1]
    IN  <<t1 \div 512, t2 \div 512, t3 \div 512, a[4] \div 512>>

\* total_sectors64 > 0xFFFFFFFFu
ExceedsU32(a) == a[3] # 0 \/ a[4] # 0

\* static_cast<std::uint32_t>(x): the low 32 bits
ToU32(a) == <<a[1], a[2]>>

\* fault variant: the subtraction is forgotten
U32Minus1_Same(u) == u

\* x - 1 in 32-bit unsigned arithmetic (wraps at 0)
U32Minus1(u) ==
    IF u[1] > 0 THEN <<u[1] - 1, u[2]>>
    ELSE IF u[2] > 0 THEN <<Limb - 1, u[2] - 1>>
    ELSE <<Limb - 1, Limb - 1>>

\* the four bytes of a 32-bit field as the packed struct stores them
\* (little-endian target)
U32Bytes(u) == <<u[1] % 256, u[1] \div 256, u[2] % 256, u[2] \div 256>>

\* the 32-bit field the packed struct reads at byte offset off of sector s
LE32(s, off) == <<s[off] + 256 * s[off + 1], s[off + 2] + 256 * s[off + 3]>>

\* operator<< of an unsigned 32-bit value under std::dec: its decimal digits
RECURSIVE Dec(_)
Dec(u) ==
    IF u[2] = 0 /\ u[1] < 10 THEN <<u[1]>>
    ELSE LET t == (u[2] % 10) * Limb + u[1]
         IN  Append(Dec(<<t \div 10, u[2] \div 10>>), t % 10)

HexDigits ==
    <<"0", "1", "2", "3", "4", "5", "6", "7",
      "8", "9", "a", "b", "c", "d", "e", "f">>

\* operator<< of static_cast<int>(byte) under std::hex: no leading zero
Hex(b) ==
    IF b < 16 THEN <<HexDigits[b + 1]>>
    ELSE <<HexDigits[(b \div 16) + 1], HexDigits[(b % 16) + 1]>>

---------------------------------------------------------------------------
(* Paths.                                                                  *)

P_a    == <<"a">>
P_d    == <<"d">>
P_de   == <<"d", "/", "e">>
P_dea  == <<"d", "/", "e", "/", "a">>
P_dev  == <<"/", "d", "e", "v">>
P_deva == <<"/", "d", "e", "v", "/", "a">>

Paths == {P_a, P_d, P_de, P_dea, P_dev, P_deva}

DevPrefix == <<"/", "d", "e", "v", "/">>

\* s.rfind(prefix, 0) == 0
StartsWith(s, prefix) ==
    Len(s) >= Len(prefix) /\ SubSeq(s, 1, Len(prefix)) = prefix

\* s.rfind('/') as a 0-based position, -1 for npos
RFindSlash(s) ==
    LET hits == {i \in 1..Len(s) : s[i] = "/"}
    IN  IF hits = {} THEN -1
        ELSE (CHOOSE i \in hits : \A j \in hits : j <= i) - 1

---------------------------------------------------------------------------
(* File-system entries.                                                    *)

NoBytes == [i \in {} |-> 0]

NoEntry  == [kind |-> "none", len |-> U64Zero, nz |-> NoBytes]
DirEntry == [kind |-> "dir",  len |-> U64Zero, nz |-> NoBytes]

\* stat(path, &st) == 0
StatOk(f, path) == path \in DOMAIN f /\ f[path].kind # "none"

ByteAt(e, i) == IF i \in DOMAIN e.nz THEN e.nz[i] ELSE 0

\* the bytes [0, n) of data stored at offset off of entry e (a pwrite)
WriteBytes(e, off, data, n) ==
    IF n = 0 THEN e
    ELSE LET span == off..(off + n - 1)
             keep == DOMAIN e.nz \ span
             set  == {i \in span : data[i - off] # 0}
         IN  [kind |-> e.kind,
              len  |-> U64Max(e.len, U64Of(off + n)),
              nz   |-> [i \in keep \cup set |->
                          IF i \in span THEN data[i - off] ELSE e.nz[i]]]

\* istream::read of one sector at offset 0: gcount and the bytes read
ReadCount(e) ==
    IF U64Less(e.len, U64Of(SECTOR_SIZE)) THEN e.len[1] ELSE SECTOR_SIZE

ReadSector(e) == [i \in 0..(SECTOR_SIZE - 1) |-> ByteAt(e, i)]

\* std::ifstream(path, binary): fopen "r" opens anything that exists
CanOpenRead(f, path) == StatOk(f, path)

\* std::fstream(path, in | out | binary): fopen "r+" needs an existing
\* entry that is not a directory
CanOpenReadWrite(f, path) ==
    path \in DOMAIN f /\ f[path].kind \in {"file", "blk"}

---------------------------------------------------------------------------
(* The sector and its partition entries.                                   *)

\* byte offset of entries[i] in the sector
EntryOffset(i) == MBR_PART_TABLE_OFFSET + i * ENTRY_SIZE

BootIndicator(s, i) == s[EntryOffset(i)]
PartitionType(s, i) == s[EntryOffset(i) + 4]
StartLba(s, i)      == LE32(s, EntryOffset(i) + 8)
SizeSectors(s, i)   == LE32(s, EntryOffset(i) + 12)

\* !(sector[510] != 0x55 || sector[511] != 0xAA)
SignatureValid(s) == ~(s[510] # 85 \/ s[511] # 170)

\* fault variant: an entry with a type and no size is listed
Skipped_TypeOnly(s, i) == PartitionType(s, i) = 0

\* print_mbr_partitions skips the entry
Skipped(s, i) == PartitionType(s, i) = 0 \/ SizeSectors(s, i) = <<0, 0>>

\* add_single_partition finds the entry in use
InUse(s, i) == PartitionType(s, i) # 0 /\ SizeSectors(s, i) # <<0, 0>>

\* the line print_mbr_partitions prints for entry i
PartitionLine(s, i) ==
    [index     |-> i + 1,
     boot      |-> IF BootIndicator(s, i) = 128 THEN "yes" ELSE "no",
     type      |-> Hex(PartitionType(s, i)),
     start_lba |-> Dec(StartLba(s, i)),
     sectors   |-> Dec(SizeSectors(s, i))]

\* the loop of print_mbr_partitions: the lines printed, in order
PartitionLines(s) ==
    LET all  == [k \in 1..MBR_MAX_PARTITIONS |-> k - 1]
        kept == SelectSeq(all, LAMBDA i : ~Skipped(s, i))
    IN  [k \in 1..Len(kept) |-> PartitionLine(s, kept[k])]

\* fault variant: the memset runs on through the signature
ZeroTable_ThroughEnd(s) ==
    [i \in 0..(SECTOR_SIZE - 1) |-> IF i >= 446 THEN 0 ELSE s[i]]

\* std::memset(sector + 446, 0, 64)
ZeroTable(s) ==
    [i \in 0..(SECTOR_SIZE - 1) |-> IF i >= 446 /\ i < 446 + 64 THEN 0 ELSE s[i]]

\* memset(sector, 0, sizeof(sector)); sector[510] = 0x55; sector[511] = 0xAA
FreshSector ==
    [i \in 0..(SECTOR_SIZE - 1) |-> IF i = 510 THEN 85 ELSE IF i = 511 THEN 170 ELSE 0]

\* memset(&p, 0, sizeof(p)); boot_indicator = 0x00; partition_type = 0x83;
\* start_lba = 1; size_sectors = size, with p = entries[0]
SetEntry0(s, size) ==
    LET o == EntryOffset(0)
        lba == U32Bytes(<<1, 0>>)
        sz  == U32Bytes(size)
    IN  [i \in 0..(SECTOR_SIZE - 1) |->
            IF i < o \/ i >= o + ENTRY_SIZE THEN s[i]
            ELSE IF i = o THEN 0
            ELSE IF i = o + 4 THEN 131
            ELSE IF i >= o + 8 /\ i < o + 12 THEN lba[i - (o + 8) + 1]
            ELSE IF i >= o + 12 THEN sz[i - (o + 12) + 1]
            ELSE 0]

---------------------------------------------------------------------------
(* The operations.  Each yields [fs, res, rw_open, out]: the file system   *)
(* it leaves, which message it ended with ("ok" when it returned true or   *)
(* printed the table), whether it reached the read-write open of the       *)
(* target, and the partition lines it printed.                             *)
(*   ForbiddenTarget     "Refusing to modify real block device"            *)
(*   CannotOpen          "cannot open device/image", "cannot create image" *)
(*   ShortRead           "could not read MBR"                              *)
(*   SizeUnknown         "could not determine size"                        *)
(*   TooSmall            "is too small for a partition table"              *)
(*   TooLarge            "is too large for 32-bit LBA"                     *)
(*   AlreadyPartitioned  "existing partition entries found"                *)
(*   AlreadyExists       "already exists"                                  *)
(*   MkdirFailed         mkdir_p returned false                            *)
(*   WriteFailed         "failed to write", "failed to resize image"       *)
(* The signature warnings change nothing and are left out.                 *)

Result(f, res, opened) ==
    [fs |-> f, res |-> res, rw_open |-> opened, out |-> <<>>]

\* stat(path) == 0 && S_ISBLK(st.st_mode)
is_block_device(f, path) == StatOk(f, path) /\ f[path].kind = "blk"

\* fault variant: the gate without the "/dev/" prefix test
IsForbiddenTarget_StatOnly(f, path) == is_block_device(f, path)

\* device.rfind("/dev/", 0) == 0 || is_block_device(device)
IsForbiddenTarget(f, path) ==
    StartsWith(path, DevPrefix) \/ is_block_device(f, path)

print_mbr_partitions(f, path) ==
    IF ~CanOpenRead(f, path) THEN Result(f, "CannotOpen", FALSE)
    ELSE IF ReadCount(f[path]) # SECTOR_SIZE THEN Result(f, "ShortRead", FALSE)
    ELSE [fs |-> f, res |-> "ok", rw_open |-> FALSE,
          out |-> PartitionLines(ReadSector(f[path]))]

\* dev.write(sector, 512) of which the storage takes wr bytes; the stream
\* is good afterwards iff it took them all
WriteSector(f, path, s, wr) ==
    Result([f EXCEPT ![path] = WriteBytes(f[path], 0, s, wr)],
           IF wr = SECTOR_SIZE THEN "ok" ELSE "WriteFailed", TRUE)

wipe_mbr_partition_table(f, path, wr) ==
    IF IsForbiddenTarget(f, path) THEN Result(f, "ForbiddenTarget", FALSE)
    ELSE IF ~CanOpenReadWrite(f, path) THEN Result(f, "CannotOpen", TRUE)
    ELSE IF ReadCount(f[path]) # SECTOR_SIZE THEN Result(f, "ShortRead", TRUE)
    ELSE WriteSector(f, path, ZeroTable(ReadSector(f[path])), wr)

\* fault variant: the signature is set and the stale bytes are kept
Repaired_KeepBytes(s) ==
    IF ~SignatureValid(s)
    THEN [i \in 0..(SECTOR_SIZE - 1) |-> IF i = 510 THEN 85 ELSE IF i = 511 THEN 170 ELSE s[i]]
    ELSE s

\* lines 294-298: a sector without the signature is replaced by a fresh one
Repaired(s) == IF ~SignatureValid(s) THEN FreshSector ELSE s

\* fault variants: the scan looks at entry 0 only; the scan skips entry 0
TableInUse_FirstOnly(s) == InUse(s, 0)
TableInUse_SkipFirst(s) == \E i \in 1..(MBR_MAX_PARTITIONS - 1) : InUse(s, i)

\* lines 301-307: some entry is in use
TableInUse(s) == \E i \in 0..(MBR_MAX_PARTITIONS - 1) : InUse(s, i)

\* fault variant: the 32-bit range test is missing
SizeCheck_NoUpperLimit(file_size) ==
    IF file_size = U64Zero THEN "SizeUnknown"
    ELSE IF U64Less(file_size, U64Of(512 * 2)) THEN "TooSmall"
    ELSE "ok"

\* lines 268-284: the size checks, on the 64-bit file size
SizeCheck(file_size) ==
    IF file_size = U64Zero THEN "SizeUnknown"
    ELSE IF U64Less(file_size, U64Of(512 * 2)) THEN "TooSmall"
    ELSE IF ExceedsU32(U64Div512(file_size)) THEN "TooLarge"
    ELSE "ok"

add_single_partition(f, path, wr) ==
    IF IsForbiddenTarget(f, path) THEN Result(f, "ForbiddenTarget", FALSE)
    ELSE IF ~CanOpenReadWrite(f, path) THEN Result(f, "CannotOpen", TRUE)
    ELSE IF SizeCheck(f[path].len) # "ok"
         THEN Result(f, SizeCheck(f[path].len), TRUE)
    ELSE IF ReadCount(f[path]) # SECTOR_SIZE THEN Result(f, "ShortRead", TRUE)
    ELSE LET total_sectors == ToU32(U64Div512(f[path].len))
             sector == Repaired(ReadSector(f[path]))
         IN  IF TableInUse(sector) THEN Result(f, "AlreadyPartitioned", TRUE)
             ELSE WriteSector(f, path,
                              SetEntry0(sector, U32Minus1(total_sectors)), wr)

---------------------------------------------------------------------------
(* create: mkdir_p and create_image_with_partition.                        *)

\* mkdir_p(path): [ok, fs]
RECURSIVE mkdir_p(_, _)
mkdir_p(f, path) ==
    IF path = <<>> \/ path = <<".">> \/ path = <<"/">> THEN [ok |-> TRUE, fs |-> f]
    ELSE IF StatOk(f, path) THEN [ok |-> f[path].kind = "dir", fs |-> f]
    ELSE LET pos == RFindSlash(path)
             up  == IF pos # -1 /\ pos > 0
                    THEN mkdir_p(f, SubSeq(path, 1, pos))
                    ELSE [ok |-> TRUE, fs |-> f]
         IN  IF ~up.ok THEN [ok |-> FALSE, fs |-> up.fs]
             ELSE IF path \notin DOMAIN up.fs THEN [ok |-> FALSE, fs |-> up.fs]
             ELSE [ok |-> TRUE, fs |-> [up.fs EXCEPT ![path] = DirEntry]]

\* lines 340-346: the parent directories of the image
EnsureParent(f, image) ==
    LET slash_pos == RFindSlash(image)
    IN  IF slash_pos # -1 /\ slash_pos > 0
        THEN mkdir_p(f, SubSeq(image, 1, slash_pos))
        ELSE [ok |-> TRUE, fs |-> f]

\* std::fstream(image, in | out | binary | trunc): fopen "w+" creates the
\* file or cuts it to length 0; it cannot open a directory
CanOpenTrunc(f, path) == path \in DOMAIN f /\ f[path].kind # "dir"

OpenTrunc(f, path) ==
    [f EXCEPT ![path] =
        [kind |-> IF f[path].kind = "blk" THEN "blk" ELSE "file",
         len |-> U64Zero, nz |-> NoBytes]]

\* lines 357-369: the sector of a new image
ImageSector == SetEntry0(ZeroTable(FreshSector), U32Minus1(<<IMAGE_SECTORS, 0>>))

\* fault variant: the length byte is written at image_size
ResizeOffset_PastEnd == IMAGE_SECTORS * 512

\* image_size - 1, the offset of the byte that sets the length
ResizeOffset == IMAGE_SECTORS * 512 - 1

\* lines 371-386: the two writes, of which the storage takes w1 of the 512
\* bytes and w2 of the one byte
WriteImage(f, image, w1, w2) ==
    LET first  == WriteBytes(f[image], 0, ImageSector, w1)
        zero   == [i \in 0..0 |-> 0]
        second == WriteBytes(first, ResizeOffset, zero, w2)
    IN  IF w1 # SECTOR_SIZE
        THEN Result([f EXCEPT ![image] = first], "WriteFailed", TRUE)
        ELSE Result([f EXCEPT ![image] = second],
                    IF w2 = 1 THEN "ok" ELSE "WriteFailed", TRUE)

\* fault variant: the existence test is missing
ImageExists_Never(f, image) == FALSE

\* stat(image.c_str(), &st) == 0 at line 335
ImageExists(f, image) == StatOk(f, image)

\* fault variant: the image is opened, and cut, before the tests
create_image_OpenFirst(f, image, w1, w2) ==
    LET g == IF CanOpenTrunc(f, image) THEN OpenTrunc(f, image) ELSE f
    IN  IF IsForbiddenTarget(f, image) THEN Result(g, "ForbiddenTarget", TRUE)
        ELSE IF ImageExists(f, image) THEN Result(g, "AlreadyExists", TRUE)
        ELSE LET par == EnsureParent(g, image)
             IN  IF ~par.ok THEN Result(par.fs, "MkdirFailed", TRUE)
                 ELSE IF ~CanOpenTrunc(par.fs, image)
                      THEN Result(par.fs, "CannotOpen", TRUE)
                 ELSE WriteImage(OpenTrunc(par.fs, image), image, w1, w2)

create_image_with_partition(f, image, w1, w2) ==
    IF IsForbiddenTarget(f, image) THEN Result(f, "ForbiddenTarget", FALSE)
    ELSE IF ImageExists(f, image) THEN Result(f, "AlreadyExists", FALSE)
    ELSE LET par == EnsureParent(f, image)
         IN  IF ~par.ok THEN Result(par.fs, "MkdirFailed", FALSE)
             ELSE IF ~CanOpenTrunc(par.fs, image)
                  THEN Result(par.fs, "CannotOpen", TRUE)
             ELSE WriteImage(OpenTrunc(par.fs, image), image, w1, w2)

---------------------------------------------------------------------------
(* The initial file systems: what the targets may hold before the first    *)
(* command.                                                                *)

\* a 16-byte partition entry
MkEntry(boot, chs, type, lba, size) ==
    <<boot, chs, chs, chs, type, chs, chs, chs>> \o U32Bytes(lba) \o U32Bytes(size)

E_zero     == MkEntry(0, 0, 0, <<0, 0>>, <<0, 0>>)
\* in use, bootable
E_bootable == MkEntry(128, 0, 131, <<1, 0>>, <<1023, 0>>)
\* in use, every byte of both 32-bit fields distinct
E_wide     == MkEntry(129, 254, 11, <<2055, 2312>>, <<772, 258>>)
\* a type without a size, and a size without a type
E_typeonly == MkEntry(128, 0, 131, <<1, 0>>, <<0, 0>>)
E_sizeonly == MkEntry(0, 0, 0, <<1, 0>>, <<0, 5>>)
\* in use, the largest field values
E_max      == MkEntry(0, 255, 255, <<Limb - 1, Limb - 1>>, <<Limb - 1, Limb - 1>>)

EntryKinds == {E_bootable, E_wide, E_typeonly, E_sizeonly}

Slots == 0..(MBR_MAX_PARTITIONS - 1)

FullTable == [i \in Slots |-> IF i = 0 THEN E_max ELSE IF i = 2 THEN E_wide ELSE E_bootable]

Tables ==
    {t \in [Slots -> EntryKinds \cup {E_zero}] :
        Cardinality({i \in Slots : t[i] # E_zero}) <= MaxNonEmpty}
    \cup {FullTable}

CoreTables ==
    {t \in Tables : \A i \in Slots : t[i] \in {E_zero, E_bootable} /\ (i \in 1..2 => t[i] = E_zero)}

\* valid, absent, and half of a signature
Signatures == {<<85, 170>>, <<0, 0>>, <<85, 0>>}

\* a sector with boot code at both ends of bytes 0..445
MkSector(t, sig) ==
    [i \in 0..(SECTOR_SIZE - 1) |->
        IF i < MBR_PART_TABLE_OFFSET THEN (IF i \in {0, 445} THEN 235 ELSE 0)
        ELSE IF i < 510 THEN t[(i - MBR_PART_TABLE_OFFSET) \div ENTRY_SIZE]
                              [((i - MBR_PART_TABLE_OFFSET) % ENTRY_SIZE) + 1]
        ELSE sig[i - 509]]

\* an entry of the given length that starts with sector s (cut to the
\* length) and has non-zero bytes past the first sector
TailOffsets == {512, 1023, 1024}

MkFile(kind, len, s) ==
    LET below(i) == U64Less(U64Of(i), len)
        head == {i \in 0..(SECTOR_SIZE - 1) : s[i] # 0 /\ below(i)}
        tail == {i \in TailOffsets : below(i)}
    IN  [kind |-> kind, len |-> len,
         nz |-> [i \in head \cup tail |-> IF i < SECTOR_SIZE THEN s[i] ELSE 119]]

SmallLens ==
    {U64Of(n) : n \in {0, 511, 1023}}
    \cup {U64Of(512 * k + r) : k \in 1..MaxSectors, r \in {0, 1}}
    \cup {U64Of(IMAGE_SECTORS * 512)}

\* (2^32 - 1) * 512, 2^41 - 1, 2^41 and 2^63 - 1 bytes
HugeLens ==
    {<<Limb - 512, Limb - 1, 511, 0>>, <<Limb - 1, Limb - 1, 511, 0>>,
     <<0, 0, 512, 0>>, <<Limb - 1, Limb - 1, Limb - 1, (Limb \div 2) - 1>>}

Lens == SmallLens \cup HugeLens

CoreLens == {U64Of(512 * 3)}

\* every length with the core tables, the core lengths with every table
Contents ==
    {<<len, MkSector(t, sig)>> : len \in Lens, t \in CoreTables, sig \in Signatures}
    \cup {<<len, MkSector(t, sig)>> : len \in CoreLens, t \in Tables, sig \in Signatures}

CoreContents ==
    {<<len, MkSector(t, sig)>> :
        len \in {U64Of(511), U64Of(512 * 3)}, t \in CoreTables, sig \in Signatures}

\* the entries a target may start as
RichEntries == {MkFile("file", c[1], c[2]) : c \in Contents}

CoreEntries == {MkFile(k, c[1], c[2]) : k \in {"file", "blk"}, c \in CoreContents}

EmptyFs == [p \in Paths |-> IF p = P_dev THEN DirEntry ELSE NoEntry]

PlainFile == MkFile("file", U64Of(512 * 3), MkSector([i \in Slots |-> E_zero], <<85, 170>>))

\* d and d/e: absent, directories, or a regular file in the way
Layouts ==
    {<<NoEntry, NoEntry>>, <<DirEntry, NoEntry>>, <<DirEntry, DirEntry>>,
     <<PlainFile, NoEntry>>, <<DirEntry, PlainFile>>}

\* the file systems a script may start in, each with the path its
\* partition commands name
InitTargets ==
    {<<[EmptyFs EXCEPT ![P_d] = l[1], ![P_de] = l[2]], p>> :
        l \in Layouts, p \in {P_d, P_de, P_dea}}
    \cup {<<EmptyFs, p>> : p \in {P_a, P_dev, P_deva}}
    \cup {<<[EmptyFs EXCEPT ![P_a] = e], P_a>> : e \in RichEntries \cup CoreEntries}
    \cup {<<[EmptyFs EXCEPT ![P_deva] = e], P_deva>> : e \in CoreEntries}
    \cup {<<[EmptyFs EXCEPT ![P_d] = DirEntry, ![P_de] = DirEntry, ![P_dea] = e], P_dea>> :
            e \in CoreEntries}

---------------------------------------------------------------------------
(* The button commands: the tokens of a script line, std::stoi, and the    *)
(* "button" branch of interpret_command.                                   *)

W_button == <<"b", "u", "t", "t", "o", "n">>
W_add    == <<"a", "d", "d">>
W_text   == <<"-", "t", "e", "x", "t">>
W_select == <<"s", "e", "l", "e", "c", "t">>
W_next   == <<"n", "e", "x", "t">>
W_prev   == <<"p", "r", "e", "v">>

\* the white space operator>> skips and stops at
IsSpace(c) == c \in {" ", "\t"}

\* the number of leading characters of s that operator>> skips
RECURSIVE SkipLen(_)
SkipLen(s) ==
    IF s # <<>> /\ IsSpace(Head(s)) THEN 1 + SkipLen(Tail(s)) ELSE 0

\* the number of leading characters of s that operator>> takes as the token
RECURSIVE TokenLen(_)
TokenLen(s) ==
    IF s # <<>> /\ ~IsSpace(Head(s)) THEN 1 + TokenLen(Tail(s)) ELSE 0

\* iss >> token on the unread characters s: the token (empty when the
\* extraction fails), the characters left unread, and whether the stream
\* is still good (neither failed nor at its end)
Extract(s) ==
    LET t == SubSeq(s, SkipLen(s) + 1, Len(s))
        n == TokenLen(t)
    IN  [token |-> SubSeq(t, 1, n),
         unread |-> SubSeq(t, n + 1, Len(t)),
         good |-> n > 0 /\ n < Len(t)]

\* rest_of_line.find_first_not_of(' ') and the erase or clear that follows
RECURSIVE TrimLeadingSpaces(_)
TrimLeadingSpaces(s) ==
    IF s # <<>> /\ Head(s) = " " THEN TrimLeadingSpaces(Tail(s)) ELSE s

\* command_type, arg1, arg2 and rest_of_line of a line; a read from a stream
\* that is no longer good fails and leaves its string empty
Tokenize(line) ==
    LET c  == Extract(line)
        a1 == IF c.good THEN Extract(c.unread)
              ELSE [token |-> <<>>, unread |-> <<>>, good |-> FALSE]
        a2 == IF a1.good THEN Extract(a1.unread)
              ELSE [token |-> <<>>, unread |-> <<>>, good |-> FALSE]
    IN  [command_type |-> c.token,
         arg1 |-> a1.token,
         arg2 |-> a2.token,
         rest_of_line |-> IF a2.good THEN TrimLeadingSpaces(a2.unread) ELSE <<>>]

DigitChars == <<"0", "1", "2", "3", "4", "5", "6", "7", "8", "9">>

IsDigit(c) == \E d \in 1..10 : DigitChars[d] = c

DigitValue(c) == (CHOOSE d \in 1..10 : DigitChars[d] = c) - 1

\* the number of leading digits of s
RECURSIVE DigitsLen(_)
DigitsLen(s) ==
    IF s # <<>> /\ IsDigit(Head(s)) THEN 1 + DigitsLen(Tail(s)) ELSE 0

\* the digits ds accumulated onto acc with the sign sgn, within the range of
\* int; "out_of_range" as soon as the number leaves it
RECURSIVE Accumulate(_, _, _)
Accumulate(ds, sgn, acc) ==
    IF ds = <<>> THEN [status |-> "value", value |-> acc]
    ELSE LET d    == DigitValue(Head(ds))
             m    == sgn * acc
             fits == m < 214748364 \/ (m = 214748364 /\ d <= (IF sgn = 1 THEN 7 ELSE 8))
         IN  IF fits THEN Accumulate(Tail(ds), sgn, acc * 10 + sgn * d)
             ELSE [status |-> "out_of_range", value |-> 0]

\* std::stoi(s): an optional sign, then the leading decimal digits; what
\* follows the digits is ignored; "invalid_argument" without a digit
stoi(s) ==
    LET signed == s # <<>> /\ Head(s) \in {"+", "-"}
        body   == IF signed THEN Tail(s) ELSE s
        n      == DigitsLen(body)
    IN  IF n = 0 THEN [status |-> "invalid_argument", value |-> 0]
        ELSE Accumulate(SubSeq(body, 1, n), IF signed /\ Head(s) = "-" THEN -1 ELSE 1, 0)

\* a button command that prints an error and returns
Rejected(buttons, selected, why) ==
    [g_buttons |-> buttons, g_selected_button |-> selected, res |-> why]

\* a button command that ends in draw_tui_menu()
Drawn(buttons, selected) ==
    [g_buttons |-> buttons, g_selected_button |-> selected, res |-> "ok"]

\* fault variant: the first button is added without being selected
button_add_KeepSelection(buttons, selected, rest_of_line) ==
    IF rest_of_line = <<>> THEN Rejected(buttons, selected, "NoLabel")
    ELSE Drawn(Append(buttons, rest_of_line), selected)

\* button add -text <label>
button_add(buttons, selected, rest_of_line) ==
    IF rest_of_line = <<>> THEN Rejected(buttons, selected, "NoLabel")
    ELSE Drawn(Append(buttons, rest_of_line), IF selected < 0 THEN 0 ELSE selected)

\* button select <index>
button_select(buttons, selected, arg2) ==
    IF arg2 = <<>> THEN Rejected(buttons, selected, "NoIndex")
    ELSE IF buttons = <<>> THEN Rejected(buttons, selected, "NoButtons")
    ELSE LET idx == stoi(arg2)
         IN  IF idx.status # "value" THEN Rejected(buttons, selected, "InvalidIndex")
             ELSE IF idx.value < 1 \/ idx.value > Len(buttons)
                  THEN Rejected(buttons, selected, "OutOfRange")
             ELSE Drawn(buttons, idx.value - 1)

\* button next
button_next(buttons, selected) ==
    IF buttons = <<>> THEN Rejected(buttons, selected, "NoButtons")
    ELSE IF selected < 0 \/ selected >= Len(buttons) THEN Drawn(buttons, 0)
    ELSE Drawn(buttons, (selected + 1) % Len(buttons))

\* button prev
button_prev(buttons, selected) ==
    IF buttons = <<>> THEN Rejected(buttons, selected, "NoButtons")
    ELSE IF selected < 0 \/ selected >= Len(buttons) THEN Drawn(buttons, 0)
    ELSE Drawn(buttons, (selected - 1 + Len(buttons)) % Len(buttons))

\* the "button" branch of interpret_command on the tokens t
button_command(t, buttons, selected) ==
    IF t.arg1 = W_add /\ t.arg2 = W_text THEN button_add(buttons, selected, t.rest_of_line)
    ELSE IF t.arg1 = W_select THEN button_select(buttons, selected, t.arg2)
    ELSE IF t.arg1 = W_next THEN button_next(buttons, selected)
    ELSE IF t.arg1 = W_prev THEN button_prev(buttons, selected)
    ELSE Rejected(buttons, selected, "UnknownUsage")

\* interpret_command(line) as far as the buttons go: a line without a
\* token returns at once, and no other command touches the buttons
interpret_command(line, buttons, selected) ==
    LET t == Tokenize(line)
    IN  IF t.command_type = <<>> THEN Rejected(buttons, selected, "NoCommand")
        ELSE IF t.command_type = W_button THEN button_command(t, buttons, selected)
        ELSE Rejected(buttons, selected, "OtherCommand")

\* the state of the buttons after construction, no button command run yet
ButtonsInit ==
    /\ g_buttons = <<>>
    /\ g_selected_button = -1
    /\ tui = [line |-> <<>>, res |-> "none", buttons |-> <<>>, selected |-> -1]

---------------------------------------------------------------------------
(* The state machine.  fs is the file system and target the path the       *)
(* script's partition commands name; last is the last command: its         *)
(* operation, result, whether it reached the read-write open, the lines it *)
(* printed and the file system before it; hist records what the successful *)
(* add/create/clean commands so far did to the target; tui is the last     *)
(* button command: its line, its result, and the button list and the       *)
(* selection before it.                                                    *)

Init ==
    /\ \E it \in InitTargets : fs = it[1] /\ target = it[2]
    /\ last = [op |-> "none", res |-> "ok", rw_open |-> FALSE,
               out |-> <<>>, before |-> fs]
    /\ hist = "none"
    /\ ButtonsInit

\* "partitioned" after a successful add or create, "cleaned" after a
\* successful clean that followed one, "repartitioned" after a successful
\* add or create that followed such a clean
HistAfter(op, res) ==
    IF res = "ok" /\ op \in {"add", "create"}
    THEN (IF hist \in {"cleaned", "repartitioned"} THEN "repartitioned" ELSE "partitioned")
    ELSE IF res = "ok" /\ op = "clean" /\ hist # "none" THEN "cleaned"
    ELSE hist

Step(op, r) ==
    /\ fs' = r.fs
    /\ target' = target
    /\ last' = [op |-> op, res |-> r.res, rw_open |-> r.rw_open,
                out |-> r.out, before |-> fs]
    /\ hist' = HistAfter(op, r.res)
    /\ UNCHANGED <<g_buttons, g_selected_button, tui>>

\* the storage takes this many bytes of a failing 512-byte write
WriteCuts == {0, 462}

\* partition <path>
Read == Step("read", print_mbr_partitions(fs, target))

\* partition <path> clean | wipe
Clean == Step("clean", wipe_mbr_partition_table(fs, target, SECTOR_SIZE))

\* partition <path> add
Add == Step("add", add_single_partition(fs, target, SECTOR_SIZE))

\* partition <path> create
Create == Step("create", create_image_with_partition(fs, target, SECTOR_SIZE, 1))

\* the same commands when the storage fails the write
CleanIoFault ==
    \E wr \in WriteCuts : Step("clean", wipe_mbr_partition_table(fs, target, wr))

AddIoFault ==
    \E wr \in WriteCuts : Step("add", add_single_partition(fs, target, wr))

CreateIoFault ==
    \E w \in (WriteCuts \X {1}) \cup {<<SECTOR_SIZE, 0>>} :
        Step("create", create_image_with_partition(fs, target, w[1], w[2]))

Next == Read \/ Clean \/ Add \/ Create

Spec == Init /\ [][Next]_vars

NextIoFault == Next \/ CleanIoFault \/ AddIoFault \/ CreateIoFault

SpecIoFault == Init /\ [][NextIoFault]_vars

---------------------------------------------------------------------------
(* The button commands of a script.  They leave the file system alone and  *)
(* the partition commands leave the buttons alone, so the button commands  *)
(* are explored on their own, over one file system.                        *)

\* the script adds at most this many buttons
MaxButtons == 3

\* what a script writes after "button add -text"
RawLabels ==
    {<<>>, <<" ">>, <<" ", " ", " ">>,
     <<" ", "A">>, <<" ", " ", "B">>, <<" ", "A", " ", "B">>}

\* what a script writes after "button select "
IndexTokens ==
    {<<>>, <<"0">>, <<"1">>, <<"2">>, <<"3">>, <<"4">>, <<"5">>,
     <<"-", "1">>, <<"+", "2">>, <<"0", "1">>, <<"x">>, <<"-">>, <<"2", "x">>,
     <<"9", "9", "9", "9", "9", "9", "9", "9", "9", "9", "9">>}

AddLine(raw) == W_button \o <<" ">> \o W_add \o <<" ">> \o W_text \o raw

SelectLine(token) == W_button \o <<" ">> \o W_select \o <<" ">> \o token

NextLines ==
    {W_button \o <<" ">> \o W_next, W_button \o <<"\t">> \o W_next \o <<" ", "x">>}

PrevLines ==
    {W_button \o <<" ">> \o W_prev, <<" ">> \o W_button \o <<" ", " ">> \o W_prev}

\* button lines that are none of the four commands
UsageLines ==
    {W_button,
     W_button \o <<" ">> \o W_add,
     W_button \o <<" ">> \o W_add \o <<" ">> \o W_text \o <<"A">>,
     W_button \o <<" ">> \o W_add \o <<" ", "A">>}

\* lines of other commands, and a line of spaces
OtherLines == {<<"e", "c", "h", "o", " ", "A">>, <<" ", " ">>}

\* interpret_command(line)
ButtonStep(line) ==
    LET r == interpret_command(line, g_buttons, g_selected_button)
    IN  /\ Len(r.g_buttons) <= MaxButtons
        /\ g_buttons' = r.g_buttons
        /\ g_selected_button' = r.g_selected_button
        /\ tui' = [line |-> line, res |-> r.res,
                   buttons |-> g_buttons, selected |-> g_selected_button]
        /\ UNCHANGED <<fs, target, last, hist>>

ButtonAdd == \E raw \in RawLabels : ButtonStep(AddLine(raw))

ButtonSelect == \E token \in IndexTokens : ButtonStep(SelectLine(token))

ButtonNext == \E line \in NextLines : ButtonStep(line)

ButtonPrev == \E line \in PrevLines : ButtonStep(line)

ButtonUsage == \E line \in UsageLines : ButtonStep(line)

OtherCommand == \E line \in OtherLines : ButtonStep(line)

InitButtons == Init /\ fs = EmptyFs /\ target = P_a

NextButtons ==
    ButtonAdd \/ ButtonSelect \/ ButtonNext \/ ButtonPrev \/ ButtonUsage \/ OtherCommand

SpecButtons == InitButtons /\ [][NextButtons]_vars

---------------------------------------------------------------------------
TypeOK ==
    /\ target \in Paths
    /\ \A p \in Paths :
        /\ fs[p].kind \in {"none", "file", "dir", "blk"}
        /\ \A i \in DOMAIN fs[p].nz :
             fs[p].nz[i] \in 1..255 /\ U64Less(U64Of(i), fs[p].len)
    /\ fs[P_dea].kind # "none" => fs[P_de].kind = "dir"
    /\ fs[P_de].kind # "none" => fs[P_d].kind = "dir"
    /\ g_selected_button \in -1..(Len(g_buttons) - 1)
    /\ Len(g_buttons) <= MaxButtons

---------------------------------------------------------------------------
(* What the claims speak of, read off the bytes of the files.              *)

\* the target before and after the last command
Pre  == last.before[target]
Post == fs[target]

Mutating == last.op \in {"clean", "add", "create"}

\* the target is classified as a block device
Classified == StartsWith(target, DevPrefix) \/ Pre.kind = "blk"

\* the target is a regular file that the gate lets through
RegularTarget == Pre.kind = "file" /\ ~Classified

AtLeast(e, n) == ~U64Less(e.len, U64Of(n))

\* bytes 510..511 of the entry are 0x55 0xAA
HasSignature(e) == ByteAt(e, 510) = 85 /\ ByteAt(e, 511) = 170

\* partition entry i of the entry's first sector: its fields, byte by byte
TypeByte(e, i) == ByteAt(e, 446 + 16 * i + 4)
BootByte(e, i) == ByteAt(e, 446 + 16 * i)
LbaField(e, i) ==
    <<ByteAt(e, 446 + 16 * i + 8) + 256 * ByteAt(e, 446 + 16 * i + 9),
      ByteAt(e, 446 + 16 * i + 10) + 256 * ByteAt(e, 446 + 16 * i + 11)>>
SizeField(e, i) ==
    <<ByteAt(e, 446 + 16 * i + 12) + 256 * ByteAt(e, 446 + 16 * i + 13),
      ByteAt(e, 446 + 16 * i + 14) + 256 * ByteAt(e, 446 + 16 * i + 15)>>

\* partition_type != 0 and size_sectors != 0
Present(e, i) == TypeByte(e, i) # 0 /\ SizeField(e, i) # <<0, 0>>

PresentSet(e) == {i \in 0..3 : Present(e, i)}

\* the 32-bit number a string of decimal digits denotes
RECURSIVE ParseDec(_)
ParseDec(ds) ==
    IF ds = <<>> THEN <<0, 0>>
    ELSE LET v  == ParseDec(SubSeq(ds, 1, Len(ds) - 1))
             lo == v[1] * 10 + ds[Len(ds)]
         IN  <<lo % Limb, (v[2] * 10 + lo \div Limb) % Limb>>

\* the number a string of one or two hexadecimal digits denotes
HexValue(h) == CHOOSE d \in 0..15 : HexDigits[d + 1] = h
ParseHex(hs) ==
    IF Len(hs) = 1 THEN HexValue(hs[1]) ELSE 16 * HexValue(hs[1]) + HexValue(hs[2])

\* every byte of the file is what it was, the listed offsets excepted
SameBytesExcept(a, b, skip) ==
    /\ a.kind = b.kind
    /\ a.len = b.len
    /\ \A i \in (DOMAIN a.nz \cup DOMAIN b.nz) \ skip : ByteAt(a, i) = ByteAt(b, i)

---------------------------------------------------------------------------
\* C1: on a target classified as a block device (a path that starts with
\* "/dev/", or a block special entry) clean, add and create each end with
\* ForbiddenTarget without reaching the read-write open, and leave the file
\* system as it was; listing the table of such a target is not refused.
C1_ForbiddenTargetUntouched ==
    Classified =>
        /\ Mutating =>
             /\ last.res = "ForbiddenTarget"
             /\ ~last.rw_open
             /\ fs = last.before
        /\ (last.op = "read" /\ Pre.kind \in {"file", "blk"} /\ AtLeast(Pre, 512))
             => (last.res = "ok" /\ fs = last.before)

\* a clean of a block special entry outside /dev was refused
C1_Witness ==
    /\ last.op = "clean"
    /\ target = P_a
    /\ Pre.kind = "blk"
    /\ last.res = "ForbiddenTarget"

---------------------------------------------------------------------------
\* C2, as stated: on a regular file of at least 1024 bytes, whatever its
\* first sector holds (signature or not), add ends with AlreadyPartitioned
\* and changes nothing when one of the four entries is present.
C2_AnyEntryBlocksAdd ==
    (/\ last.op = "add"
     /\ RegularTarget
     /\ AtLeast(Pre, 1024)
     /\ PresentSet(Pre) # {})
    => (last.res = "AlreadyPartitioned" /\ fs = last.before)

\* the file has more than 2^32 - 1 whole sectors
TooManySectors(e) == e.len[4] # 0 \/ e.len[3] >= 512

\* C2, amended: on a regular file of at least 1024 bytes and at most
\* 2^32 - 1 sectors whose first sector carries the boot signature, add ends
\* with AlreadyPartitioned and changes nothing when one of the four entries
\* is present.
C2_EntryBlocksAddWhenSigned ==
    (/\ last.op = "add"
     /\ RegularTarget
     /\ AtLeast(Pre, 1024)
     /\ ~TooManySectors(Pre)
     /\ HasSignature(Pre)
     /\ PresentSet(Pre) # {})
    => (last.res = "AlreadyPartitioned" /\ fs = last.before)

\* an add was refused because of an entry in the last slot alone
C2_Witness ==
    /\ last.op = "add"
    /\ RegularTarget
    /\ HasSignature(Pre)
    /\ PresentSet(Pre) = {3}
    /\ last.res = "AlreadyPartitioned"

---------------------------------------------------------------------------
\* line k of the listing describes entry i of the file
LineShows(line, e, i) ==
    /\ line.index = i + 1
    /\ (line.boot = "yes") = (BootByte(e, i) = 128)
    /\ line.boot \in {"yes", "no"}
    /\ ParseHex(line.type) = TypeByte(e, i)
    /\ ParseDec(line.start_lba) = LbaField(e, i)
    /\ ParseDec(line.sectors) = SizeField(e, i)

\* the listing is exactly the present entries of the file, in index order
ListsPresentEntries(out, e) ==
    /\ Len(out) = Cardinality(PresentSet(e))
    /\ \A k \in 1..Len(out) :
         /\ (out[k].index - 1) \in PresentSet(e)
         /\ LineShows(out[k], e, out[k].index - 1)
         /\ k > 1 => out[k - 1].index < out[k].index

\* C3: listing a sector that carries the boot signature prints exactly the
\* entries with a non-zero type and a non-zero size, in ascending order,
\* each with its index plus one, boot = yes iff the indicator is 0x80, and
\* its type, start LBA and sector count.
C3_ReadListsPresentEntries ==
    (/\ last.op = "read"
     /\ Pre.kind \in {"file", "blk"}
     /\ AtLeast(Pre, 512)
     /\ HasSignature(Pre))
    => (last.res = "ok" /\ ListsPresentEntries(last.out, Pre))

\* a listing of one line, for the last slot, of a table that also holds
\* nothing else
C3_Witness ==
    /\ last.op = "read"
    /\ HasSignature(Pre)
    /\ last.res = "ok"
    /\ Len(last.out) = 1
    /\ last.out[1].index = 4

---------------------------------------------------------------------------
\* C4: a successful clean of a regular file of at least 512 bytes leaves
\* every byte as it was, bytes 446..509 excepted, which are zero; the
\* length, bytes 0..445, the signature bytes and everything past the first
\* sector are unchanged.  A listing right after it prints no entry.
C4_CleanZeroesOnlyTheTable ==
    /\ [](last.op = "clean" /\ last.res = "ok" =>
            /\ Pre.kind = "file" /\ AtLeast(Pre, 512)
            /\ SameBytesExcept(Pre, Post, 446..509)
            /\ \A i \in 446..509 : ByteAt(Post, i) = 0
            /\ \A p \in Paths \ {target} : fs[p] = last.before[p])
    /\ [][(last.op = "clean" /\ last.res = "ok" /\ last'.op = "read") =>
            (last'.res = "ok" /\ Len(last'.out) = 0)]_vars

\* a clean succeeded on a signed sector whose four entries were all present
C4_Witness ==
    /\ last.op = "clean"
    /\ last.res = "ok"
    /\ HasSignature(Pre)
    /\ PresentSet(Pre) = {0, 1, 2, 3}
    /\ ByteAt(Pre, 445) # 0
    /\ ByteAt(Pre, 512) # 0

---------------------------------------------------------------------------
\* u + 1 = v for 32-bit numbers, without wrap-around
IsSucc32(u, v) ==
    \/ u[1] < Limb - 1 /\ v = <<u[1] + 1, u[2]>>
    \/ u[1] = Limb - 1 /\ u[2] < Limb - 1 /\ v = <<0, u[2] + 1>>

\* 512 * u as a 64-bit number
Times512(u) ==
    LET lo == u[1] * 512
        hi == u[2] * 512 + lo \div Limb
    IN  <<lo % Limb, hi % Limb, hi \div Limb, 0>>

\* u = floor(len / 512)
IsSectorCount(u, len) ==
    LET t == Times512(u)
    IN  /\ len[2] = t[2] /\ len[3] = t[3] /\ len[4] = t[4]
        /\ len[1] - t[1] \in 0..511

\* the one line of a table whose single partition starts at sector 1 and
\* fills a file of the given length
SinglePartitionListing(out, len) ==
    /\ Len(out) = 1
    /\ out[1].index = 1
    /\ out[1].boot = "no"
    /\ out[1].type = <<"8", "3">>
    /\ out[1].start_lba = <<1>>
    /\ \E t \in {ToU32(U64Div512(len))} :
         IsSectorCount(t, len) /\ IsSucc32(ParseDec(out[1].sectors), t)

\* C5: add on a regular file with no present entry and a size in range
\* (at least 1024 bytes, at most 2^32 - 1 sectors) succeeds, and a listing
\* right after it prints exactly one line: index 1, boot = no, type 0x83,
\* start_lba 1, sectors = floor(length / 512) - 1.
C5_AddThenReadShowsOnePartition ==
    /\ []((/\ last.op = "add"
           /\ RegularTarget
           /\ AtLeast(Pre, 1024)
           /\ ~TooManySectors(Pre)
           /\ PresentSet(Pre) = {}) => last.res = "ok")
    /\ [][(/\ last.op = "add"
           /\ last.res = "ok"
           /\ PresentSet(Pre) = {}
           /\ last'.op = "read")
          => (last'.res = "ok" /\ SinglePartitionListing(last'.out, Pre.len))]_vars

\* a listing after an add that succeeded on a signed table whose other
\* slots held a type without a size
C5_Witness ==
    /\ last.op = "read"
    /\ last.res = "ok"
    /\ hist = "partitioned"
    /\ Len(last.out) = 1
    /\ HasSignature(Pre)
    /\ TypeByte(Pre, 2) # 0
    /\ ByteAt(Pre, 445) # 0

---------------------------------------------------------------------------
\* C6: once an add or a create has succeeded on the target, every later add
\* ends with AlreadyPartitioned and leaves the file system unchanged for as
\* long as no clean has succeeded since; after a successful clean, add
\* succeeds again.
C6_AddOnlyOnceUntilCleaned ==
    [][last'.op = "add" =>
         /\ hist \in {"partitioned", "repartitioned"} =>
              (last'.res = "AlreadyPartitioned" /\ fs' = fs)
         /\ hist = "cleaned" => (last'.res = "ok" /\ PresentSet(fs'[target]) = {0})
      ]_vars

\* an add was refused on a target that had been partitioned, cleaned and
\* partitioned again by an add
C6_Witness ==
    /\ hist = "repartitioned"
    /\ last.op = "add"
    /\ last.res = "AlreadyPartitioned"

---------------------------------------------------------------------------
\* no ancestor directory of the target is something other than a directory
ParentsCanExist == \A p \in {P_d, P_de} :
    (StartsWith(target, p \o <<"/">>) => last.before[p].kind \in {"none", "dir"})

\* the entry is a 524,288-byte regular file whose only non-zero bytes are
\* the type 0x83, the start LBA 1, the size 1023 and the signature
IsFreshImage(e) ==
    /\ e.kind = "file"
    /\ e.len = <<0, 8, 0, 0>>
    /\ DOMAIN e.nz = {450, 454, 458, 459, 510, 511}
    /\ ByteAt(e, 450) = 131
    /\ ByteAt(e, 454) = 1
    /\ ByteAt(e, 458) = 255 /\ ByteAt(e, 459) = 3
    /\ ByteAt(e, 510) = 85 /\ ByteAt(e, 511) = 170

ImageListing(out) ==
    /\ Len(out) = 1
    /\ out[1] = [index |-> 1, boot |-> "no", type |-> <<"8", "3">>,
                 start_lba |-> <<1>>, sectors |-> <<1, 0, 2, 3>>]

\* C7, as stated: create on a path with no entry that is not classified as
\* a block device leaves a 524,288-byte regular file with the signature,
\* zero boot code, the one partition and zeros after the first sector.
C7_CreateMakesImage ==
    (last.op = "create" /\ Pre.kind = "none" /\ ~Classified)
    => (last.res = "ok" /\ IsFreshImage(Post))

\* C7, amended: the same, for a path none of whose ancestors is a
\* non-directory (the missing ones are created); a listing right after the
\* create prints the one partition (index 1, boot = no, type 0x83,
\* start_lba 1, sectors 1023).
C7_CreateMakesImageUnderDirectories ==
    /\ []((last.op = "create" /\ Pre.kind = "none" /\ ~Classified /\ ParentsCanExist)
          => (/\ last.res = "ok"
              /\ IsFreshImage(Post)
              /\ \A p \in {P_d, P_de} :
                   StartsWith(target, p \o <<"/">>) => fs[p] = DirEntry))
    /\ [][(last.op = "create" /\ last.res = "ok" /\ last'.op = "read")
          => (last'.res = "ok" /\ ImageListing(last'.out))]_vars

\* an image was created two directories down, both created on the way
C7_Witness ==
    /\ last.op = "create"
    /\ last.res = "ok"
    /\ target = P_dea
    /\ last.before[P_d].kind = "none"
    /\ IsFreshImage(Post)

---------------------------------------------------------------------------
\* C8, as stated: create on a path where an entry exists ends with
\* AlreadyExists and changes nothing.
C8_CreateNeverOverwrites ==
    (last.op = "create" /\ Pre.kind # "none")
    => (last.res = "AlreadyExists" /\ fs = last.before)

\* C8, amended: create on a path where an entry exists and that is not
\* classified as a block device ends with AlreadyExists and changes
\* nothing (on a classified path it ends with ForbiddenTarget, and changes
\* nothing either).
C8_CreateNeverOverwritesUngated ==
    (last.op = "create" /\ Pre.kind # "none")
    => /\ fs = last.before
       /\ ~last.rw_open
       /\ last.res = IF Classified THEN "ForbiddenTarget" ELSE "AlreadyExists"

\* a second create on an image that an earlier create made and a clean
\* emptied
C8_Witness ==
    /\ last.op = "create"
    /\ last.res = "AlreadyExists"
    /\ hist = "cleaned"
    /\ Pre.len = <<0, 8, 0, 0>>
    /\ PresentSet(Pre) = {}

---------------------------------------------------------------------------
\* an add on a regular file none of whose entries is present
AddOnEmptyTable == last.op = "add" /\ RegularTarget /\ PresentSet(Pre) = {}

\* what C9 says of the lengths from 1024 bytes up: TooLarge and no change
\* above 2^32 - 1 sectors; success with size 1 at 1024 bytes; and on every
\* success a size field of floor(L / 512) - 1, so that start_lba + size is
\* the sector count
C9_FromTwoSectorsUp ==
    /\ (AddOnEmptyTable /\ TooManySectors(Pre))
         => (last.res = "TooLarge" /\ fs = last.before)
    /\ (AddOnEmptyTable /\ Pre.len = U64Of(1024))
         => (last.res = "ok" /\ SizeField(Post, 0) = <<1, 0>>)
    /\ (AddOnEmptyTable /\ last.res = "ok")
         => /\ LbaField(Post, 0) = <<1, 0>>
            /\ \E t \in {ToU32(U64Div512(Pre.len))} :
                 IsSectorCount(t, Pre.len) /\ IsSucc32(SizeField(Post, 0), t)

\* C9, as stated: for every length L of a regular file with an empty table,
\* add ends with TooSmall when L < 1024, leaving the file unchanged, and
\* behaves as above from 1024 bytes up.
C9_SizeLimits ==
    /\ (AddOnEmptyTable /\ ~AtLeast(Pre, 1024))
         => (last.res = "TooSmall" /\ fs = last.before)
    /\ C9_FromTwoSectorsUp

\* C9, amended: add ends with TooSmall when 0 < L < 1024 and with the
\* could-not-determine-size error when L = 0, leaving the file unchanged
\* in both cases, and behaves as above from 1024 bytes up.
C9_SizeLimitsNonEmptyFile ==
    /\ (AddOnEmptyTable /\ ~AtLeast(Pre, 1024))
         => /\ last.res = IF Pre.len = U64Zero THEN "SizeUnknown" ELSE "TooSmall"
            /\ fs = last.before
    /\ C9_FromTwoSectorsUp

\* an add succeeded on a file of 2^32 - 1 sectors and wrote the size
\* 0xFFFFFFFE
C9_Witness ==
    /\ AddOnEmptyTable
    /\ last.res = "ok"
    /\ Pre.len = <<Limb - 512, Limb - 1, 511, 0>>
    /\ SizeField(Post, 0) = <<Limb - 2, Limb - 1>>

---------------------------------------------------------------------------
\* C10: a clean, add or create that fails for a reason other than the
\* failure of its write (forbidden target, cannot open, short read, size
\* out of range, table in use, already exists, parent not a directory)
\* leaves the target's bytes, length and existence as they were.
C10_FailureBeforeWriteChangesNothing ==
    (Mutating /\ last.res \notin {"ok", "WriteFailed"}) => Post = Pre

\* a create was refused on what a create whose resize write failed had
\* left: a file of one sector
C10_Witness ==
    /\ last.op = "create"
    /\ last.res = "AlreadyExists"
    /\ Pre.kind = "file"
    /\ Pre.len = U64Of(512)
    /\ Post = Pre

---------------------------------------------------------------------------
\* entry 0 is the synthesized partition: inactive, type 0x83, zero CHS
\* bytes, start LBA 1
IsSynthesizedEntry0(e) ==
    /\ BootByte(e, 0) = 0
    /\ TypeByte(e, 0) = 131
    /\ \A i \in {447, 448, 449, 451, 452, 453} : ByteAt(e, i) = 0
    /\ LbaField(e, 0) = <<1, 0>>

\* C11: a successful add changes the first sector in one of two ways.  With
\* the boot signature present it rewrites bytes 446..461 (entry 0) only:
\* bytes 0..445, entries 1..3 and the signature are as they were.  With the
\* signature absent it leaves a sector that is zero except for entry 0 and
\* the bytes 0x55 0xAA at 510..511.  Either way the signature is valid
\* afterwards, entries 1..3 are absent, and the length and every byte past
\* the first sector are as they were.
C11_AddRewritesEntry0OrTheSector ==
    (last.op = "add" /\ last.res = "ok") =>
        /\ HasSignature(Pre) => SameBytesExcept(Pre, Post, 446..461)
        /\ ~HasSignature(Pre) =>
             /\ SameBytesExcept(Pre, Post, 0..511)
             /\ \A i \in 0..511 : (ByteAt(Post, i) # 0 => i \in 446..461 \cup {510, 511})
        /\ HasSignature(Post)
        /\ IsSynthesizedEntry0(Post)
        /\ PresentSet(Post) = {0}
        /\ \A p \in Paths \ {target} : fs[p] = last.before[p]

\* an add succeeded on a sector without the signature that held boot code
\* and a present entry in the last slot, and on a file with bytes past the
\* first sector
C11_Witness ==
    /\ last.op = "add"
    /\ last.res = "ok"
    /\ ~HasSignature(Pre)
    /\ ByteAt(Pre, 0) # 0
    /\ PresentSet(Pre) = {3}
    /\ ByteAt(Post, 512) # 0

---------------------------------------------------------------------------
(* The button commands as a script writer reads them.                      *)

\* labels that are empty once the spaces before them are dropped
EmptyLabels == {<<>>, <<" ">>, <<" ", " ", " ">>}

\* the written indexes that are decimal numbers, with the number each denotes
WrittenNumbers ==
    {<<<<"0">>, 0>>, <<<<"1">>, 1>>, <<<<"2">>, 2>>, <<<<"3">>, 3>>,
     <<<<"4">>, 4>>, <<<<"5">>, 5>>, <<<<"-", "1">>, -1>>, <<<<"+", "2">>, 2>>,
     <<<<"0", "1">>, 1>>}

\* a decimal number no int holds
HugeNumber == <<"9", "9", "9", "9", "9", "9", "9", "9", "9", "9", "9">>

\* written indexes that do not start with a decimal number
NoLeadingNumber == {<<"x">>, <<"-">>}

\* a written index that is not a number but starts with the number 2
TrailingText == <<"2", "x">>

SelectLines == {SelectLine(token) : token \in IndexTokens}

\* the last command was a select of a number outside 1..number of buttons
SelectOutOfRange ==
    \/ tui.line = SelectLine(HugeNumber)
    \/ \E w \in WrittenNumbers :
         tui.line = SelectLine(w[1]) /\ w[2] \notin 1..Len(tui.buttons)

\* the last command left the button list and the selection as they were
ButtonsUntouched ==
    g_buttons = tui.buttons /\ g_selected_button = tui.selected

\* the selection is -1 exactly without buttons, else the index of a button
SelectionInRange ==
    /\ g_selected_button = -1 <=> g_buttons = <<>>
    /\ g_buttons # <<>> => (0 <= g_selected_button /\ g_selected_button < Len(g_buttons))

\* the last command is one the claim calls rejected, an index counting as
\* non-numeric when it is in nonNumeric
RejectedCase(nonNumeric) ==
    \/ tui.line \in {AddLine(raw) : raw \in EmptyLabels}
    \/ tui.line = SelectLine(<<>>)
    \/ tui.line \in {SelectLine(token) : token \in nonNumeric}
    \/ SelectOutOfRange
    \/ tui.buttons = <<>> /\ tui.line \in SelectLines \cup NextLines \cup PrevLines

\* a prev right after a next, or a next right after a prev, both drawn,
\* ends on the selection from before the two
NextPrevRestores ==
    (/\ tui.res = "ok" /\ tui'.res = "ok"
     /\ \/ tui.line \in NextLines /\ tui'.line \in PrevLines
        \/ tui.line \in PrevLines /\ tui'.line \in NextLines)
    => g_selected_button' = tui.selected

\* C12 as stated: after any sequence of button add -text, select, next and
\* prev commands the selection is -1 exactly when there is no button and
\* otherwise 0 <= selected < number of buttons; a rejected command (empty
\* label; select with a missing, non-numeric or out-of-range index; select,
\* next or prev with no buttons) leaves the button list and the selection
\* unchanged; next followed by prev, or prev followed by next, restores the
\* selection.  An index such as "2x" is not a number.
C12_SelectionFollowsButtons ==
    /\ [](/\ SelectionInRange
          /\ RejectedCase(NoLeadingNumber \cup {TrailingText}) => ButtonsUntouched
          /\ tui.res # "ok" => ButtonsUntouched)
    /\ [][NextPrevRestores]_vars

\* C12, amended: as above, the non-numeric indexes that are rejected being
\* those that do not start with a decimal number; an index that starts with
\* a number in range selects that button whatever follows the number.
C12_SelectionFollowsLeadingNumber ==
    /\ [](/\ SelectionInRange
          /\ RejectedCase(NoLeadingNumber) => (tui.res # "ok" /\ ButtonsUntouched)
          /\ tui.res # "ok" => ButtonsUntouched
          /\ (tui.line = SelectLine(TrailingText) /\ Len(tui.buttons) >= 2) =>
                (tui.res = "ok" /\ g_buttons = tui.buttons /\ g_selected_button = 1))
    /\ [][NextPrevRestores]_vars

\* a prev from the first of several buttons is drawn and wraps to the last
C12_Witness ==
    /\ Len(g_buttons) >= 2
    /\ tui.line \in PrevLines /\ tui.res = "ok"
    /\ tui.selected = 0
    /\ g_selected_button = Len(g_buttons) - 1

====
